---- MODULE Spec2Model ----
(***************************************************************************)
(* A model of bbengine (src/bbengine/__init__.py): the Auctioneer (auction *)
(* state), the CriteriaChecker, the bidder.bid tree walk and the CONFI     *)
(* hand-off.                                                               *)
(*                                                                         *)
(* Python lists are 0-based; sequences here are 1-based.  Seats            *)
(* (next_to_bid, opener, the indices of hands) keep the code's 0-based     *)
(* numbers 0..3; positions in BIDS, SUITS and RANKS are 1-based, so        *)
(* Index(s, x) = s.index(x) + 1.                                           *)
(***************************************************************************)
EXTENDS Integers, Sequences, FiniteSets, TLC

VARIABLES
    bids,                \* Auctioneer.bids
    next_to_bid,         \* Auctioneer.next_to_bid (0..3)
    dealer,              \* Auctioneer.dealer
    exc,                 \* the exception raised by the last call, or NoExc
    pc,                  \* position of the caller: bidder.bid, CONFIHandOff.bid
    hands,               \* bidder.bid: hands = [north, None, south, None]
    full_tree,           \* bidder.full_tree
    next_bids,           \* bidder.next_bids (the cursor)
    selected,            \* position, among findall("./bid"), of the node committed last
    opener,              \* CONFIHandOff.bid: opener
    openers_first_rebid, \* CONFIHandOff.bid: openers_first_rebid
    denied_four_cards,   \* CONFIHandOff.bid: the four signalling tables
    showed_four_cards,
    showed_five_cards,
    showed_three_cards,
    confi_made,          \* the steps of CONFIHandOff.bid that appended bids, in order
    walk_from,           \* a caller of next_bid: the bid it started from
    walk_bid,            \* a caller of next_bid: its local bid, the argument
    walk_value           \* a caller of next_bid: what the call gave, or None

auction == <<bids, next_to_bid, dealer, exc>>
director == <<hands, full_tree, next_bids, selected>>
confi == <<opener, openers_first_rebid, denied_four_cards, showed_four_cards,
           showed_five_cards, showed_three_cards, confi_made>>
walk == <<walk_from, walk_bid, walk_value>>
vars == <<bids, next_to_bid, dealer, exc, pc, hands, full_tree, next_bids,
          selected, opener, openers_first_rebid, denied_four_cards,
          showed_four_cards, showed_five_cards, showed_three_cards, confi_made,
          walk_from, walk_bid, walk_value>>

-----------------------------------------------------------------------------
(* Bounds *)

\* Longest history the free-running Auctioneer is driven to before all_pass.
MaxBids == 5

-----------------------------------------------------------------------------
(* Globals *)

SUITS == <<"S", "H", "D", "C">>
RANKS == <<"A", "K", "Q", "J", "T", "9", "8", "7", "6", "5", "4", "3", "2", "1">>
DIRECTIONS == <<"N", "E", "S", "W">>

\* itertools.product(range(1, 7), ("C", "D", "H", "S", "N")), as str(a) + b
BIDS ==
    LET levels == <<"1", "2", "3", "4", "5", "6">>
        strains == <<"C", "D", "H", "S", "N">>
    IN  [i \in 1..(Len(levels) * Len(strains)) |->
            levels[((i - 1) \div Len(strains)) + 1]
                \o strains[((i - 1) % Len(strains)) + 1]]

NoExc == "none"
None == "None"

\* list.index, 1-based; 0 stands for the ValueError of a missing element
Index(s, x) ==
    IF \E i \in 1..Len(s) : s[i] = x
    THEN CHOOSE i \in 1..Len(s) : s[i] = x /\ \A j \in 1..(i - 1) : s[j] # x
    ELSE 0

RECURSIVE SumTo(_, _)
SumTo(f, n) == IF n = 0 THEN 0 ELSE f[n] + SumTo(f, n - 1)

\* str.count of a one-character rank in the whole hand string
Count(hand, rank) ==
    SumTo([s \in 1..Len(hand) |->
              Cardinality({k \in 1..Len(hand[s]) : hand[s][k] = rank})],
          Len(hand))

\* Evaluator(*args)(holding): zip(RANKS, list(args) + [0]*(len(RANKS)-len(args)))
Evaluator(args, holding) ==
    SumTo([k \in 1..Len(RANKS) |->
              Count(holding, RANKS[k]) * (IF k <= Len(args) THEN args[k] ELSE 0)],
          Len(RANKS))

HCPEvaluator(holding) == Evaluator(<<4, 3, 2, 1>>, holding)

ControlEvaluator(holding) == Evaluator(<<2, 1>>, holding)

\* Shape(shape_string)(holding): the helper returns True for every holding
Shape(shape_string, holding) == TRUE

\* BIDS[BIDS.index(bid) + 1]; "ValueError" for a bid that is not in BIDS,
\* "IndexError" past the last element of BIDS
next_bid(bid) ==
    IF Index(BIDS, bid) = 0 THEN "ValueError"
    ELSE IF Index(BIDS, bid) + 1 <= Len(BIDS)
    THEN BIDS[Index(BIDS, bid) + 1]
    ELSE "IndexError"

\* bid.endswith("N") and int(bid[0]) for a bid of BIDS
endswithN(bid) == (Index(BIDS, bid) - 1) % 5 = 4
level(bid) == ((Index(BIDS, bid) - 1) \div 5) + 1
\* SUITS.index(bid[-1]) + 1 for a suit bid of BIDS (C, D, H, S -> 4, 3, 2, 1)
suit_index(bid) == 4 - ((Index(BIDS, bid) - 1) % 5)

-----------------------------------------------------------------------------
(* Auctioneer.  A state st is [bids, next_to_bid, exc]; an operation on a  *)
(* state whose exc is set does nothing, which is how the exception leaves  *)
(* the rest of the caller's statements unexecuted.                         *)

has_opened(b) == IF Len(b) = 0 THEN FALSE ELSE \E i \in 1..Len(b) : b[i] # "P"

completed(b) ==
    IF ~has_opened(b) THEN Len(b) = 4
    ELSE IF Len(b) < 4 THEN FALSE
    ELSE \A i \in (Len(b) - 2)..Len(b) : b[i] = "P"

\* add_bid without the completed() test
add_bid_skips_check(st, bid) ==
    IF st.exc # NoExc THEN st
    ELSE [st EXCEPT !.bids = Append(@, bid),
                    !.next_to_bid = (@ + 1) % Len(DIRECTIONS)]

\* add_bid that advances the turn before the completed() test
add_bid_turn_first(st, bid) ==
    IF st.exc # NoExc THEN st
    ELSE IF completed(st.bids)
         THEN [st EXCEPT !.exc = "Auction is already over!",
                         !.next_to_bid = (@ + 1) % Len(DIRECTIONS)]
         ELSE [st EXCEPT !.bids = Append(@, bid),
                         !.next_to_bid = (@ + 1) % Len(DIRECTIONS)]

add_bid(st, bid) ==
    IF st.exc # NoExc THEN st
    ELSE IF completed(st.bids)
         THEN [st EXCEPT !.exc = "Auction is already over!"]
         ELSE [st EXCEPT !.bids = Append(@, bid),
                         !.next_to_bid = (@ + 1) % Len(DIRECTIONS)]

RECURSIVE all_pass_loop(_)
all_pass_loop(st) ==
    IF st.exc # NoExc \/ completed(st.bids) THEN st
    ELSE all_pass_loop(add_bid(st, "P"))

\* three Pass, whatever the history
all_pass_three_passes(st) ==
    IF st.exc # NoExc THEN st
    ELSE [st EXCEPT !.bids = @ \o <<"P", "P", "P">>,
                    !.next_to_bid = (@ + 3) % Len(DIRECTIONS)]

all_pass(st) == all_pass_loop(st)

highest_bid(b) ==
    IF \E i \in 1..Len(b) : b[i] # "P"
    THEN b[CHOOSE i \in 1..Len(b) : b[i] # "P" /\ \A j \in (i + 1)..Len(b) : b[j] = "P"]
    ELSE None

final_contract(b) == IF ~completed(b) THEN None ELSE highest_bid(b)

\* the live Auctioneer as a state record
state == [bids |-> bids, next_to_bid |-> next_to_bid, exc |-> NoExc]

-----------------------------------------------------------------------------
(* xml.etree.ElementTree.  An Element is [tag, attrib, text, children];    *)
(* NoneElem stands for the None that find() returns, and an ElementTree is *)
(* the wrapper of its root.  Attribute values that the code passes to      *)
(* int() are kept as integers.                                             *)

NoAttrib == [k \in {} |-> 0]
Elem(tag, attrib, text, children) ==
    [tag |-> tag, attrib |-> attrib, text |-> text, children |-> children]
NoneElem == Elem("#None", NoAttrib, "", <<>>)
ElementTree(root) == Elem("#ElementTree", NoAttrib, "", <<root>>)

\* bool(x): None is false, an Element is true iff it has children, any
\* other object (the ElementTree) is true
truth(x) ==
    IF x.tag = "#None" THEN FALSE
    ELSE IF x.tag = "#ElementTree" THEN TRUE
    ELSE Len(x.children) > 0

\* x.findall("./" + tag): the children with that tag, in document order
findall(x, tag) ==
    LET e == IF x.tag = "#ElementTree" THEN x.children[1] ELSE x
    IN  SelectSeq(e.children, LAMBDA c : c.tag = tag)

\* x.find("./" + tag): the first such child, or None
find(x, tag) == IF Len(findall(x, tag)) > 0 THEN findall(x, tag)[1] ELSE NoneElem

\* attrib.get(key, default)
get(attrib, key, default) == IF key \in DOMAIN attrib THEN attrib[key] ELSE default

-----------------------------------------------------------------------------
(* Criteria.  A result is [value, exc].                                    *)

Result(v) == [value |-> v, exc |-> NoExc]
Raise(e) == [value |-> FALSE, exc |-> e]

OpeningCriterion(xml_element, hand, st) == ~has_opened(st.bids)

ShapeCriterion(xml_element, hand, st) == Shape(xml_element.text, hand)

BalancedCriterion(xml_element, hand, st) ==
    Shape("4,3,3,3", hand) \/ Shape("4,4,3,2", hand) \/ Shape("5,3,3,2", hand)

HCPCriterion(xml_element, hand, st) ==
    LET hcp == HCPEvaluator(hand)
    IN  IF hcp < get(xml_element.attrib, "min", 0) THEN FALSE
        ELSE IF hcp > get(xml_element.attrib, "max", 40) THEN FALSE
        ELSE TRUE

\* CriteriaChecker.criteria after the five add_criteria calls
criteria == {"opening", "shape", "balanced", "hcp", "or"}

\* CriteriaChecker._check_one: self.criteria[tag]() applied to the element.
\* OrCriterion calls xml_element.getchildren(), which Element does not have
\* (removed in Python 3.9): its evaluation ends in AttributeError.
check_one(criterion_element, hand, st) ==
    IF criterion_element.tag \notin criteria THEN Raise("KeyError")
    ELSE IF criterion_element.tag = "opening"
         THEN Result(OpeningCriterion(criterion_element, hand, st))
    ELSE IF criterion_element.tag = "shape"
         THEN Result(ShapeCriterion(criterion_element, hand, st))
    ELSE IF criterion_element.tag = "balanced"
         THEN Result(BalancedCriterion(criterion_element, hand, st))
    ELSE IF criterion_element.tag = "hcp"
         THEN Result(HCPCriterion(criterion_element, hand, st))
    ELSE Raise("AttributeError")

\* all(map(checker_partial, criteria_elements)): the elements are evaluated
\* in order until one is false (or raises)
RECURSIVE check_all(_, _, _, _)
check_all(elements, i, hand, st) ==
    IF i > Len(elements) THEN Result(TRUE)
    ELSE LET r == check_one(elements[i], hand, st)
         IN  IF r.exc # NoExc \/ ~r.value THEN r
             ELSE check_all(elements, i + 1, hand, st)

\* CriteriaChecker.check(criteria_elements, hand, state) with func=all;
\* iterating an Element yields its children
check(criteria_elements, hand, st) == check_all(criteria_elements.children, 1, hand, st)

-----------------------------------------------------------------------------
(* HandOffs.handoffs after add_handoff(CONFIHandOff)                       *)

handoffs == {"confi"}

\* HandOffs.do, line 165: self.handoffs[handoff_str.lower()], the registered
\* name that handoff_str lowers to, or KeyError when it lowers to none.  The
\* registered names are written in the letters a-z, and str.lower gives such
\* a name exactly for the strings of the name's length whose character at
\* each place is the name's letter or its capital: a character other than
\* these two lowers to something else than the letter, whatever stands around
\* it (but for k, which the Kelvin sign U+212A lowers to as well; no registered
\* name has a k).
handoff_class(handoff_str) ==
    LET capital == [a |-> "A", b |-> "B", c |-> "C", d |-> "D", e |-> "E",
                    f |-> "F", g |-> "G", h |-> "H", i |-> "I", j |-> "J",
                    k |-> "K", l |-> "L", m |-> "M", n |-> "N", o |-> "O",
                    p |-> "P", q |-> "Q", r |-> "R", s |-> "S", t |-> "T",
                    u |-> "U", v |-> "V", w |-> "W", x |-> "X", y |-> "Y",
                    z |-> "Z"]
        at(str, i) == SubSeq(str, i, i)
        lowers_to(name) ==
            /\ Len(handoff_str) = Len(name)
            /\ \A i \in 1..Len(name) :
                   \/ at(handoff_str, i) = at(name, i)
                   \/ /\ at(name, i) \in DOMAIN capital
                      /\ at(handoff_str, i) = capital[at(name, i)]
    IN  IF \E name \in handoffs : lowers_to(name)
        THEN CHOOSE name \in handoffs : lowers_to(name)
        ELSE "KeyError"

-----------------------------------------------------------------------------
(* Inputs: bidding systems and hands.                                      *)

Crit(tag) == Elem(tag, NoAttrib, "", <<>>)
HCP(attrib) == Elem("hcp", attrib, "", <<>>)
ShapeEl(text) == Elem("shape", NoAttrib, text, <<>>)
Criteria(children) == Elem("criteria", NoAttrib, "", children)
Responses(children) == Elem("responses", NoAttrib, "", children)
Bid(attrib, children) == Elem("bid", attrib, "", children)
System(children) == ElementTree(Elem("system", NoAttrib, "", children))

\* The reference system: North opens 2N, South responds 3N, which hands
\* off to CONFI.
kokish ==
    System(<<
        Bid([value |-> "2N"], <<
            Criteria(<<Crit("opening"), Crit("balanced"), HCP([min |-> 20, max |-> 21])>>),
            Responses(<<
                Bid([value |-> "3N", handoff |-> "CONFI"], <<
                    Criteria(<<HCP(NoAttrib)>>)>>)>>)>>)>>)

\* Several nodes whose guards overlap; an unregistered hand-off; a response
\* subtree without children and one with a child that is not a bid.
overlapping ==
    System(<<
        Bid([value |-> "2C", handoff |-> "gerber"], <<
            Criteria(<<Crit("opening"), HCP([min |-> 22])>>)>>),
        Bid([value |-> "2N"], <<
            Criteria(<<Crit("opening"), HCP([min |-> 20])>>),
            Responses(<<>>)>>),
        Bid([value |-> "1C"], <<
            Criteria(<<Crit("opening"), HCP([min |-> 11])>>),
            Responses(<<
                Bid([value |-> "1H"], <<
                    Criteria(<<ShapeEl("4+"), HCP([min |-> 11])>>),
                    Responses(<<Elem("note", NoAttrib, "", <<>>)>>)>>),
                Bid([value |-> "1N"], <<
                    Criteria(<<HCP([max |-> 10])>>)>>),
                Bid([value |-> "1S"], <<
                    Criteria(<<HCP(NoAttrib)>>)>>)>>)>>)>>)

\* A response below the opening bid.
descending ==
    System(<<
        Bid([value |-> "2N"], <<
            Criteria(<<Crit("opening")>>),
            Responses(<<
                Bid([value |-> "1C"], <<
                    Criteria(<<HCP(NoAttrib)>>)>>)>>)>>)>>)

\* A hand-off node that also has a response subtree.
handoff_with_responses ==
    System(<<
        Bid([value |-> "2N"], <<
            Criteria(<<Crit("opening")>>),
            Responses(<<
                Bid([value |-> "3N", handoff |-> "CONFI"], <<
                    Criteria(<<HCP(NoAttrib)>>),
                    Responses(<<
                        Bid([value |-> "4N"], <<
                            Criteria(<<HCP(NoAttrib)>>)>>)>>)>>)>>)>>)>>)

\* CONFI asked by the opening bid itself: at 5N, and at 3S.
handoff_5N ==
    System(<<
        Bid([value |-> "5N", handoff |-> "confi"], <<
            Criteria(<<Crit("opening")>>)>>)>>)

handoff_3S ==
    System(<<
        Bid([value |-> "3S", handoff |-> "confi"], <<
            Criteria(<<Crit("opening")>>)>>)>>)

\* CONFI asked by the opening bid, its name written in mixed case.
handoff_mixed_case ==
    System(<<
        Bid([value |-> "2N", handoff |-> "Confi"], <<
            Criteria(<<Crit("opening")>>)>>)>>)

\* An unregistered criterion, and a node without criteria.
misconfigured ==
    System(<<
        Bid([value |-> "2C"], <<
            Criteria(<<HCP([min |-> 22])>>)>>),
        Bid([value |-> "2N"], <<
            Criteria(<<HCP([min |-> 20]), Crit("vulnerable")>>)>>),
        Bid([value |-> "1N"], <<
            Criteria(<<HCP([min |-> 11, max |-> 11]), Crit("or")>>)>>),
        Bid([value |-> "1C"], <<>>)>>)

\* Pass as a tree value.
passing ==
    System(<<
        Bid([value |-> "1C"], <<
            Criteria(<<Crit("opening"), HCP([min |-> 20])>>)>>),
        Bid([value |-> "P"], <<
            Criteria(<<Crit("opening")>>),
            Responses(<<
                Bid([value |-> "1H"], <<
                    Criteria(<<Crit("opening"), HCP([min |-> 11])>>)>>),
                Bid([value |-> "P"], <<
                    Criteria(<<Crit("opening")>>)>>)>>)>>)>>)

empty_system == System(<<>>)

Systems == <<kokish, overlapping, descending, handoff_with_responses,
             handoff_5N, handoff_3S, misconfigured, passing, empty_system,
             handoff_mixed_case>>

\* A hand is its four holdings in the order of SUITS, as str.split yields
\* them; a holding is the sequence of its characters.
Hands == <<
    \* 1: "AQ3 AK3 J2 AQ652"  (HCP 20, controls 7)
    <<<<"A", "Q", "3">>, <<"A", "K", "3">>, <<"J", "2">>, <<"A", "Q", "6", "5", "2">>>>,
    \* 2: "K9742 J2 K865 K3"  (HCP 10, controls 3)
    <<<<"K", "9", "7", "4", "2">>, <<"J", "2">>, <<"K", "8", "6", "5">>, <<"K", "3">>>>,
    \* 3: "K9742 J2 QJ65 K3"  (HCP 10, controls 2)
    <<<<"K", "9", "7", "4", "2">>, <<"J", "2">>, <<"Q", "J", "6", "5">>, <<"K", "3">>>>,
    \* 4: "KQJx KQxx KQx Ax"  (HCP 20, controls 5)
    <<<<"K", "Q", "J", "x">>, <<"K", "Q", "x", "x">>, <<"K", "Q", "x">>, <<"A", "x">>>>,
    \* 5: "Axxx ATx Jx Qxxx"  (HCP 11, controls 4)
    <<<<"A", "x", "x", "x">>, <<"A", "T", "x">>, <<"J", "x">>, <<"Q", "x", "x", "x">>>>,
    \* 6: "KJxx QJTx AK AKx"  (HCP 21, controls 7)
    <<<<"K", "J", "x", "x">>, <<"Q", "J", "T", "x">>, <<"A", "K">>, <<"A", "K", "x">>>>,
    \* 7: "Axx Axxx QTxx Jx"  (HCP 11, controls 4)
    <<<<"A", "x", "x">>, <<"A", "x", "x", "x">>, <<"Q", "T", "x", "x">>, <<"J", "x">>>>,
    \* 8: "Kxx AQTxx AKJ KJ"  (HCP 21, controls 7)
    <<<<"K", "x", "x">>, <<"A", "Q", "T", "x", "x">>, <<"A", "K", "J">>, <<"K", "J">>>>,
    \* 9: "AQxx Kxx xx Qxxx"  (HCP 11, controls 3)
    <<<<"A", "Q", "x", "x">>, <<"K", "x", "x">>, <<"x", "x">>, <<"Q", "x", "x", "x">>>>,
    \* 10: "AK9742 AK KQ6 K3"  (HCP 22, controls 8)
    <<<<"A", "K", "9", "7", "4", "2">>, <<"A", "K">>, <<"K", "Q", "6">>, <<"K", "3">>>>,
    \* 11: "432 432 432 5432"  (HCP 0, controls 0)
    <<<<"4", "3", "2">>, <<"4", "3", "2">>, <<"4", "3", "2">>, <<"5", "4", "3", "2">>>>,
    \* 12: "AKxx AKx AKx AKx"  (HCP 28, controls 12)
    <<<<"A", "K", "x", "x">>, <<"A", "K", "x">>, <<"A", "K", "x">>, <<"A", "K", "x">>>>,
    \* 13: "AJT QJTx AKJ AJx"  (HCP 21, controls 7)
    <<<<"A", "J", "T">>, <<"Q", "J", "T", "x">>, <<"A", "K", "J">>, <<"A", "J", "x">>>>,
    \* 14: "Qxxx Ax xx KQxxx"  (HCP 11, controls 3)
    <<<<"Q", "x", "x", "x">>, <<"A", "x">>, <<"x", "x">>, <<"K", "Q", "x", "x", "x">>>>,
    \* 15: "AJx AKQ Kxx ATxx"  (HCP 21, controls 8)
    <<<<"A", "J", "x">>, <<"A", "K", "Q">>, <<"K", "x", "x">>, <<"A", "T", "x", "x">>>>,
    \* 16: "Qxxx xxx Ax KQxx"  (HCP 11, controls 3)
    <<<<"Q", "x", "x", "x">>, <<"x", "x", "x">>, <<"A", "x">>, <<"K", "Q", "x", "x">>>>
    >>

\* hands = [north, None, south, None]: the entries of East and West are
\* None and are never read, so only seats 0 and 2 are kept
HandsOf(north, south) == [s \in {0, 2} |-> IF s = 0 THEN north ELSE south]

\* the signalling tables: [[False]*4, None, [False]*4, None]
NoFlags == [s \in {0, 2} |-> [i \in 1..4 |-> FALSE]]

-----------------------------------------------------------------------------
(* bidder.bid                                                              *)

\* the result of a call becomes the Auctioneer; an exception ends the run
Set(st, normal_pc) ==
    /\ bids' = st.bids
    /\ next_to_bid' = st.next_to_bid
    /\ exc' = st.exc
    /\ pc' = IF st.exc # NoExc THEN "raised" ELSE normal_pc

\* the for loop of bid over findall("./bid"), from position i: the position
\* of the first node whose criteria hold (0 when the loop runs to its else)
RECURSIVE scan(_, _, _, _)
scan(cands, i, hand, st) ==
    IF i > Len(cands) THEN [k |-> 0, exc |-> NoExc]
    ELSE LET crit == find(cands[i], "criteria")
         IN  IF ~truth(crit) THEN [k |-> 0, exc |-> "No criteria found!"]
             ELSE LET r == check(crit, hand, st)
                  IN  IF r.exc # NoExc THEN [k |-> 0, exc |-> r.exc]
                      ELSE IF ~r.value THEN scan(cands, i + 1, hand, st)
                      ELSE [k |-> i, exc |-> NoExc]

\* a walk that keeps the last node whose criteria hold
RECURSIVE scan_last(_, _, _, _)
scan_last(cands, i, hand, st) ==
    IF i = 0 THEN [k |-> 0, exc |-> NoExc]
    ELSE LET crit == find(cands[i], "criteria")
         IN  IF truth(crit) /\ check(crit, hand, st).exc = NoExc
                 /\ check(crit, hand, st).value
             THEN [k |-> i, exc |-> NoExc]
             ELSE scan_last(cands, i - 1, hand, st)

first_match_takes_last(cands, hand, st) ==
    IF scan(cands, 1, hand, st).exc # NoExc THEN scan(cands, 1, hand, st)
    ELSE scan_last(cands, Len(cands), hand, st)

first_match(cands, hand, st) == scan(cands, 1, hand, st)

\* lines 497-500: the cursor is None or has no children
bid_exhausted ==
    /\ pc = "bid"
    /\ ~truth(next_bids)
    /\ Set(all_pass(state), "done")
    /\ UNCHANGED <<walk, dealer, director, confi>>

\* lines 501-519: a node is selected (or the walk raises)
bid_select ==
    /\ pc = "bid"
    /\ truth(next_bids)
    /\ LET cands == findall(next_bids, "bid")
           m == first_match(cands, hands[next_to_bid], state)
       IN  /\ m.k > 0 \/ m.exc # NoExc
           /\ IF m.exc # NoExc
              THEN /\ pc' = "raised"
                   /\ exc' = m.exc
                   /\ UNCHANGED <<bids, next_to_bid, next_bids, selected>>
              ELSE LET node == cands[m.k]
                       st == add_bid(add_bid(state, node.attrib["value"]), "P")
                   IN  /\ selected' = m.k
                       /\ bids' = st.bids
                       /\ next_to_bid' = st.next_to_bid
                       /\ IF st.exc # NoExc
                          THEN /\ pc' = "raised"
                               /\ exc' = st.exc
                               /\ UNCHANGED next_bids
                          ELSE /\ next_bids' = find(node, "responses")
                               /\ IF "handoff" \in DOMAIN node.attrib
                                  THEN IF handoff_class(node.attrib["handoff"]) \in handoffs
                                       THEN pc' = "confi_control" /\ exc' = NoExc
                                       ELSE pc' = "raised" /\ exc' = "KeyError"
                                  ELSE pc' = "bid" /\ exc' = NoExc
    /\ UNCHANGED <<walk, dealer, hands, full_tree, confi>>

\* lines 520-521: no node's criteria hold, the while loop is left
bid_no_match ==
    /\ pc = "bid"
    /\ truth(next_bids)
    /\ LET m == first_match(findall(next_bids, "bid"), hands[next_to_bid], state)
       IN  m.k = 0 /\ m.exc = NoExc
    /\ pc' = "done"
    /\ UNCHANGED <<walk, auction, director, confi>>

-----------------------------------------------------------------------------
(* CONFIHandOff.bid                                                        *)

Max(a, b) == IF a > b THEN a ELSE b

expected_minimum == 6

Made(step, seat, b) == [step |-> step, seat |-> seat, bid |-> b]

\* a single move up where the code loops until a no-trump bid
cheapest_nt_one_step(bid) == IF endswithN(bid) THEN bid ELSE next_bid(bid)

\* while not bid.endswith("N"): bid = next_bid(bid)
RECURSIVE cheapest_nt(_)
cheapest_nt(bid) == IF endswithN(bid) THEN bid ELSE cheapest_nt(next_bid(bid))

\* a search that starts one past the given position
RECURSIVE first_nt_from_above(_)
first_nt_from_above(i) ==
    IF i + 1 > Len(BIDS) THEN "No cheapest NT?"
    ELSE IF endswithN(BIDS[i + 1]) THEN BIDS[i + 1]
    ELSE first_nt_from_above(i + 1)

\* for i in range(BIDS.index(...), len(BIDS)): the first BIDS[i] ending in N
RECURSIVE first_nt_from(_)
first_nt_from(i) ==
    IF i > Len(BIDS) THEN "No cheapest NT?"
    ELSE IF endswithN(BIDS[i]) THEN BIDS[i]
    ELSE first_nt_from(i + 1)

\* bid_steps = max(opener_controls - expected_minimum, 0) + 1
control_steps(controls) == Max(controls - expected_minimum, 0) + 1

\* lines 191-197: the opener shows controls in steps above bids[-2]
confi_control ==
    /\ pc = "confi_control"
    /\ opener' = next_to_bid
    /\ LET opener_controls == ControlEvaluator(hands[next_to_bid])
           bid_steps == control_steps(opener_controls)
           asked == Index(BIDS, bids[Len(bids) - 1])
       IN  IF asked = 0
           THEN /\ pc' = "raised" /\ exc' = "ValueError"
                /\ UNCHANGED <<bids, next_to_bid, confi_made>>
           ELSE IF asked + bid_steps > Len(BIDS)
           THEN /\ pc' = "raised" /\ exc' = "IndexError"
                /\ UNCHANGED <<bids, next_to_bid, confi_made>>
           ELSE /\ Set(add_bid(add_bid(state, BIDS[asked + bid_steps]), "P"),
                       "confi_sufficiency")
                /\ confi_made' = <<Made("control", next_to_bid, BIDS[asked + bid_steps])>>
    /\ UNCHANGED <<walk, dealer, director, openers_first_rebid, denied_four_cards,
                   showed_four_cards, showed_five_cards, showed_three_cards>>

\* lines 199-224: the responder signs off below 10 controls, else the
\* signalling tables are set up
confi_sufficiency ==
    /\ pc = "confi_sufficiency"
    /\ LET responder_controls == ControlEvaluator(hands[next_to_bid])
           opener_controls == Max(ControlEvaluator(hands[opener]), expected_minimum)
       IN  IF responder_controls + opener_controls < 10
           THEN LET b == first_nt_from(Index(BIDS, bids[Len(bids) - 1]))
                IN  /\ Set(all_pass(add_bid(state, b)), "bid")
                    /\ confi_made' = Append(confi_made, Made("signoff10", next_to_bid, b))
                    /\ UNCHANGED <<openers_first_rebid, denied_four_cards,
                                   showed_four_cards, showed_five_cards,
                                   showed_three_cards>>
           ELSE /\ denied_four_cards' = NoFlags
                /\ showed_four_cards' = NoFlags
                /\ showed_five_cards' = NoFlags
                /\ showed_three_cards' = NoFlags
                /\ openers_first_rebid' = TRUE
                /\ pc' = "confi_mincheck"
                /\ UNCHANGED <<bids, next_to_bid, exc, confi_made>>
    /\ UNCHANGED <<walk, dealer, director, opener>>

\* a minimum check made on every turn of the opener
confi_mincheck_every_turn ==
    /\ pc = "confi_mincheck"
    /\ IF next_to_bid = opener
       THEN /\ openers_first_rebid' = FALSE
            /\ LET opener_controls == ControlEvaluator(hands[next_to_bid])
                   current_bid == highest_bid(bids)
               IN  IF opener_controls < expected_minimum
                   THEN IF endswithN(current_bid)
                        THEN Set(all_pass(state), "bid") /\ UNCHANGED confi_made
                        ELSE LET b == cheapest_nt(current_bid)
                                 st == add_bid(add_bid(state, b), "P")
                                 responder_controls == ControlEvaluator(hands[st.next_to_bid])
                             IN  /\ confi_made' =
                                       Append(confi_made, Made("mincheck", next_to_bid, b))
                                 /\ IF responder_controls
                                         + Max(opener_controls, expected_minimum) < 11
                                    THEN Set(all_pass(st), "bid")
                                    ELSE Set(st, "confi_longsuit")
                   ELSE /\ pc' = "confi_longsuit"
                        /\ UNCHANGED <<bids, next_to_bid, exc, confi_made>>
       ELSE /\ pc' = "confi_longsuit"
            /\ UNCHANGED <<bids, next_to_bid, exc, openers_first_rebid, confi_made>>
    /\ UNCHANGED <<walk, dealer, director, opener, denied_four_cards,
                   showed_four_cards, showed_five_cards, showed_three_cards>>

\* lines 226-249: on the opener's first rebid, fewer controls than the
\* expected minimum are corrected by the cheapest NT
confi_mincheck ==
    /\ pc = "confi_mincheck"
    /\ IF next_to_bid = opener /\ openers_first_rebid
       THEN /\ openers_first_rebid' = FALSE
            /\ LET opener_controls == ControlEvaluator(hands[next_to_bid])
                   current_bid == highest_bid(bids)
               IN  IF opener_controls < expected_minimum
                   THEN IF endswithN(current_bid)
                        THEN Set(all_pass(state), "bid") /\ UNCHANGED confi_made
                        ELSE LET b == cheapest_nt(current_bid)
                                 st == add_bid(add_bid(state, b), "P")
                                 responder_controls == ControlEvaluator(hands[st.next_to_bid])
                             IN  /\ confi_made' =
                                       Append(confi_made, Made("mincheck", next_to_bid, b))
                                 /\ IF responder_controls
                                         + Max(opener_controls, expected_minimum) < 11
                                    THEN Set(all_pass(st), "bid")
                                    ELSE Set(st, "confi_longsuit")
                   ELSE /\ pc' = "confi_longsuit"
                        /\ UNCHANGED <<bids, next_to_bid, exc, confi_made>>
       ELSE /\ pc' = "confi_longsuit"
            /\ UNCHANGED <<bids, next_to_bid, exc, openers_first_rebid, confi_made>>
    /\ UNCHANGED <<walk, dealer, director, opener, denied_four_cards,
                   showed_four_cards, showed_five_cards, showed_three_cards>>

\* a search that asks for more than n cards
first_suit_longer(flags, hand, n) ==
    IF \E i \in 1..4 : flags[i] /\ Len(hand[i]) > n
    THEN CHOOSE i \in 1..4 : /\ flags[i] /\ Len(hand[i]) > n
                             /\ \A j \in 1..(i - 1) : ~(flags[j] /\ Len(hand[j]) > n)
    ELSE 0

\* the first suit (in the order of SUITS) that is flagged and held with at
\* least n cards, or 0: the for loops of lines 254, 263, 276 and 289
first_suit(flags, hand, n) ==
    IF \E i \in 1..4 : flags[i] /\ Len(hand[i]) >= n
    THEN CHOOSE i \in 1..4 : /\ flags[i] /\ Len(hand[i]) >= n
                             /\ \A j \in 1..(i - 1) : ~(flags[j] /\ Len(hand[j]) >= n)
    ELSE 0

\* a long-suit jump open to either seat
confi_longsuit_any_seat ==
    /\ pc = "confi_longsuit"
    /\ LET current_hand == hands[next_to_bid]
           i == first_suit([j \in 1..4 |-> TRUE], current_hand, 6)
       IN  IF i # 0
           THEN /\ Set(all_pass(add_bid(state, "6" \o SUITS[i])), "bid")
                /\ confi_made' =
                      Append(confi_made, Made("longsuit", next_to_bid, "6" \o SUITS[i]))
           ELSE /\ pc' = "confi_fit"
                /\ UNCHANGED <<bids, next_to_bid, exc, confi_made>>
    /\ UNCHANGED <<walk, dealer, director, opener, openers_first_rebid, denied_four_cards,
                   showed_four_cards, showed_five_cards, showed_three_cards>>

\* lines 251-259: the opener jumps to the 6 level in a suit of 6+ cards
confi_longsuit ==
    /\ pc = "confi_longsuit"
    /\ LET current_hand == hands[next_to_bid]
           i == first_suit([j \in 1..4 |-> TRUE], current_hand, 6)
       IN  IF next_to_bid = opener /\ i # 0
           THEN /\ Set(all_pass(add_bid(state, "6" \o SUITS[i])), "bid")
                /\ confi_made' =
                      Append(confi_made, Made("longsuit", next_to_bid, "6" \o SUITS[i]))
           ELSE /\ pc' = "confi_fit"
                /\ UNCHANGED <<bids, next_to_bid, exc, confi_made>>
    /\ UNCHANGED <<walk, dealer, director, opener, openers_first_rebid, denied_four_cards,
                   showed_four_cards, showed_five_cards, showed_three_cards>>

\* fit checks whose 3-5 case reads the table of denied suits
confi_fit_reads_denied ==
    /\ pc = "confi_fit"
    /\ LET current_hand == hands[next_to_bid]
           partner == 2 - next_to_bid
           i44 == first_suit(showed_four_cards[partner], current_hand, 4)
           i53 == first_suit(showed_five_cards[partner], current_hand, 3)
           i35 == first_suit(denied_four_cards[partner], current_hand, 5)
           i == IF i44 # 0 THEN i44 ELSE IF i53 # 0 THEN i53 ELSE i35
           step == IF i44 # 0 THEN "fit44" ELSE IF i53 # 0 THEN "fit53" ELSE "fit35"
       IN  IF i # 0
           THEN /\ Set(all_pass(add_bid(state, "6" \o SUITS[i])), "bid")
                /\ confi_made' =
                      Append(confi_made, Made(step, next_to_bid, "6" \o SUITS[i]))
           ELSE /\ pc' = "confi_show4"
                /\ UNCHANGED <<bids, next_to_bid, exc, confi_made>>
    /\ UNCHANGED <<walk, dealer, director, opener, openers_first_rebid, denied_four_cards,
                   showed_four_cards, showed_five_cards, showed_three_cards>>

\* lines 262-299: a 4-4, 5-3 or 3-5 fit with what partner has shown
confi_fit ==
    /\ pc = "confi_fit"
    /\ LET current_hand == hands[next_to_bid]
           partner == 2 - next_to_bid
           i44 == first_suit(showed_four_cards[partner], current_hand, 4)
           i53 == first_suit(showed_five_cards[partner], current_hand, 3)
           i35 == first_suit(showed_three_cards[partner], current_hand, 5)
           i == IF i44 # 0 THEN i44 ELSE IF i53 # 0 THEN i53 ELSE i35
           step == IF i44 # 0 THEN "fit44" ELSE IF i53 # 0 THEN "fit53" ELSE "fit35"
       IN  IF i # 0
           THEN /\ Set(all_pass(add_bid(state, "6" \o SUITS[i])), "bid")
                /\ confi_made' =
                      Append(confi_made, Made(step, next_to_bid, "6" \o SUITS[i]))
           ELSE /\ pc' = "confi_show4"
                /\ UNCHANGED <<bids, next_to_bid, exc, confi_made>>
    /\ UNCHANGED <<walk, dealer, director, opener, openers_first_rebid, denied_four_cards,
                   showed_four_cards, showed_five_cards, showed_three_cards>>

\* a move that steps over a no-trump bid only and otherwise stays on the bid
step_up_stays(bid) ==
    IF endswithN(bid)
    THEN (IF next_bid(bid) = "IndexError" THEN "IndexError" ELSE next_bid(bid))
    ELSE bid

\* the bid the scans of lines 305-307, 346-348 and 380-382 move to:
\* next_bid, and once more over a no-trump bid
step_up(bid) ==
    IF next_bid(bid) = "IndexError" THEN "IndexError"
    ELSE IF endswithN(next_bid(bid)) THEN next_bid(next_bid(bid))
    ELSE next_bid(bid)

\* a scan that does not look at what partner has denied
RECURSIVE show4_scan_ignores_denial(_, _, _, _, _)
show4_scan_ignores_denial(i, bid, denied, hand, me) ==
    IF i = 4 THEN [made |-> None, denied |-> denied, exc |-> NoExc]
    ELSE LET b == step_up(bid)
         IN  IF b = "IndexError"
             THEN [made |-> None, denied |-> denied, exc |-> "IndexError"]
             ELSE IF level(b) >= 6
             THEN [made |-> None, denied |-> denied, exc |-> NoExc]
             ELSE IF Len(hand[suit_index(b)]) < 4
             THEN show4_scan_ignores_denial(i + 1, b,
                             [denied EXCEPT ![me][suit_index(b)] = TRUE], hand, me)
             ELSE IF showed_four_cards[me][suit_index(b)]
             THEN show4_scan_ignores_denial(i + 1, b, denied, hand, me)
             ELSE [made |-> b, denied |-> denied, exc |-> NoExc]

\* a scan that does not look at what the seat has shown already
RECURSIVE show4_scan_shows_again(_, _, _, _, _)
show4_scan_shows_again(i, bid, denied, hand, me) ==
    IF i = 4 THEN [made |-> None, denied |-> denied, exc |-> NoExc]
    ELSE LET b == step_up(bid)
         IN  IF b = "IndexError"
             THEN [made |-> None, denied |-> denied, exc |-> "IndexError"]
             ELSE IF level(b) >= 6
             THEN [made |-> None, denied |-> denied, exc |-> NoExc]
             ELSE IF Len(hand[suit_index(b)]) < 4
             THEN show4_scan_shows_again(i + 1, b,
                             [denied EXCEPT ![me][suit_index(b)] = TRUE], hand, me)
             ELSE IF denied[2 - me][suit_index(b)]
             THEN show4_scan_shows_again(i + 1, b, denied, hand, me)
             ELSE [made |-> b, denied |-> denied, exc |-> NoExc]

\* lines 304-337, from iteration i (0..3) at bid: the suit bid to make (or
\* None), the denials recorded on the way, and an IndexError of next_bid
RECURSIVE show4_scan(_, _, _, _, _)
show4_scan(i, bid, denied, hand, me) ==
    IF i = 4 THEN [made |-> None, denied |-> denied, exc |-> NoExc]
    ELSE LET b == step_up(bid)
         IN  IF b = "IndexError"
             THEN [made |-> None, denied |-> denied, exc |-> "IndexError"]
             ELSE IF level(b) >= 6
             THEN [made |-> None, denied |-> denied, exc |-> NoExc]
             ELSE IF Len(hand[suit_index(b)]) < 4
             THEN show4_scan(i + 1, b,
                             [denied EXCEPT ![me][suit_index(b)] = TRUE], hand, me)
             ELSE IF denied[2 - me][suit_index(b)]
             THEN show4_scan(i + 1, b, denied, hand, me)
             ELSE IF showed_four_cards[me][suit_index(b)]
             THEN show4_scan(i + 1, b, denied, hand, me)
             ELSE [made |-> b, denied |-> denied, exc |-> NoExc]

\* lines 301-341: show a 4-card suit up the line
confi_show4 ==
    /\ pc = "confi_show4"
    /\ LET current_bid == highest_bid(bids)
           r == show4_scan(0, current_bid, denied_four_cards,
                           hands[next_to_bid], next_to_bid)
       IN  /\ denied_four_cards' = r.denied
           /\ IF r.exc # NoExc
              THEN /\ pc' = "raised" /\ exc' = r.exc
                   /\ UNCHANGED <<bids, next_to_bid, showed_four_cards, confi_made>>
              ELSE IF r.made # None
              THEN LET st == add_bid(add_bid(state, r.made), "P")
                   IN  /\ showed_four_cards' =
                             [showed_four_cards EXCEPT
                                 ![next_to_bid][suit_index(r.made)] = TRUE]
                       /\ Set(st, IF current_bid # highest_bid(st.bids)
                                  THEN "confi_mincheck" ELSE "confi_show5")
                       /\ confi_made' =
                             Append(confi_made, Made("show4", next_to_bid, r.made))
              ELSE /\ pc' = "confi_show5"
                   /\ UNCHANGED <<bids, next_to_bid, exc, showed_four_cards, confi_made>>
    /\ UNCHANGED <<walk, dealer, director, opener, openers_first_rebid,
                   showed_five_cards, showed_three_cards>>

\* a scan that takes a 4-card suit for a 5-card suit
RECURSIVE show5_scan_four_cards(_, _, _, _)
show5_scan_four_cards(i, bid, hand, me) ==
    IF i = 4 THEN [made |-> None, exc |-> NoExc]
    ELSE LET b == step_up(bid)
         IN  IF b = "IndexError" THEN [made |-> None, exc |-> "IndexError"]
             ELSE IF level(b) >= 6 THEN [made |-> None, exc |-> NoExc]
             ELSE IF Len(hand[suit_index(b)]) < 4
             THEN show5_scan_four_cards(i + 1, b, hand, me)
             ELSE IF showed_five_cards[me][suit_index(b)]
             THEN show5_scan_four_cards(i + 1, b, hand, me)
             ELSE [made |-> b, exc |-> NoExc]

\* lines 345-368, from iteration i at bid
RECURSIVE show5_scan(_, _, _, _)
show5_scan(i, bid, hand, me) ==
    IF i = 4 THEN [made |-> None, exc |-> NoExc]
    ELSE LET b == step_up(bid)
         IN  IF b = "IndexError" THEN [made |-> None, exc |-> "IndexError"]
             ELSE IF level(b) >= 6 THEN [made |-> None, exc |-> NoExc]
             ELSE IF Len(hand[suit_index(b)]) < 5
             THEN show5_scan(i + 1, b, hand, me)
             ELSE IF showed_five_cards[me][suit_index(b)]
             THEN show5_scan(i + 1, b, hand, me)
             ELSE [made |-> b, exc |-> NoExc]

\* lines 343-372: show a 5-card suit
confi_show5 ==
    /\ pc = "confi_show5"
    /\ LET current_bid == highest_bid(bids)
           r == show5_scan(0, current_bid, hands[next_to_bid], next_to_bid)
       IN  IF r.exc # NoExc
           THEN /\ pc' = "raised" /\ exc' = r.exc
                /\ UNCHANGED <<bids, next_to_bid, showed_five_cards, confi_made>>
           ELSE IF r.made # None
           THEN LET st == add_bid(add_bid(state, r.made), "P")
                IN  /\ showed_five_cards' =
                          [showed_five_cards EXCEPT
                              ![next_to_bid][suit_index(r.made)] = TRUE]
                    /\ Set(st, IF current_bid # highest_bid(st.bids)
                               THEN "confi_mincheck" ELSE "confi_show3")
                    /\ confi_made' =
                          Append(confi_made, Made("show5", next_to_bid, r.made))
           ELSE /\ pc' = "confi_show3"
                /\ UNCHANGED <<bids, next_to_bid, exc, showed_five_cards, confi_made>>
    /\ UNCHANGED <<walk, dealer, director, opener, openers_first_rebid,
                   denied_four_cards, showed_four_cards, showed_three_cards>>

\* a scan that shows a 3-card suit whether or not partner has shown it
RECURSIVE show3_scan_any_suit(_, _, _, _, _)
show3_scan_any_suit(i, bid, current_bid, hand, me) ==
    IF i = 4 THEN [made |-> None, exc |-> NoExc]
    ELSE LET b == step_up(bid)
         IN  IF b = "IndexError" THEN [made |-> None, exc |-> "IndexError"]
             ELSE IF level(b) > level(current_bid) THEN [made |-> None, exc |-> NoExc]
             ELSE IF level(b) >= 6 THEN [made |-> None, exc |-> NoExc]
             ELSE IF Len(hand[suit_index(b)]) < 3
             THEN show3_scan_any_suit(i + 1, b, current_bid, hand, me)
             ELSE IF showed_three_cards[me][suit_index(b)]
             THEN show3_scan_any_suit(i + 1, b, current_bid, hand, me)
             ELSE [made |-> b, exc |-> NoExc]

\* lines 379-410, from iteration i at bid
RECURSIVE show3_scan(_, _, _, _, _)
show3_scan(i, bid, current_bid, hand, me) ==
    IF i = 4 THEN [made |-> None, exc |-> NoExc]
    ELSE LET b == step_up(bid)
         IN  IF b = "IndexError" THEN [made |-> None, exc |-> "IndexError"]
             ELSE IF level(b) > level(current_bid) THEN [made |-> None, exc |-> NoExc]
             ELSE IF level(b) >= 6 THEN [made |-> None, exc |-> NoExc]
             ELSE IF Len(hand[suit_index(b)]) < 3
             THEN show3_scan(i + 1, b, current_bid, hand, me)
             ELSE IF showed_three_cards[me][suit_index(b)]
             THEN show3_scan(i + 1, b, current_bid, hand, me)
             ELSE IF ~showed_four_cards[2 - me][suit_index(b)]
             THEN show3_scan(i + 1, b, current_bid, hand, me)
             ELSE [made |-> b, exc |-> NoExc]

\* lines 374-414: show a 3-card suit that partner has shown, at this level
confi_show3 ==
    /\ pc = "confi_show3"
    /\ LET current_bid == highest_bid(bids)
           r == show3_scan(0, current_bid, current_bid, hands[next_to_bid], next_to_bid)
       IN  IF r.exc # NoExc
           THEN /\ pc' = "raised" /\ exc' = r.exc
                /\ UNCHANGED <<bids, next_to_bid, showed_three_cards, confi_made>>
           ELSE IF r.made # None
           THEN LET st == add_bid(add_bid(state, r.made), "P")
                IN  /\ showed_three_cards' =
                          [showed_three_cards EXCEPT
                              ![next_to_bid][suit_index(r.made)] = TRUE]
                    /\ Set(st, IF current_bid # highest_bid(st.bids)
                               THEN "confi_mincheck" ELSE "confi_signoff")
                    /\ confi_made' =
                          Append(confi_made, Made("show3", next_to_bid, r.made))
           ELSE /\ pc' = "confi_signoff"
                /\ UNCHANGED <<bids, next_to_bid, exc, showed_three_cards, confi_made>>
    /\ UNCHANGED <<walk, dealer, director, opener, openers_first_rebid,
                   denied_four_cards, showed_four_cards, showed_five_cards>>

\* a sign-off that leaves out the Pass after the cheapest NT
confi_signoff_without_pass ==
    /\ pc = "confi_signoff"
    /\ LET current_bid == highest_bid(bids)
       IN  IF endswithN(current_bid)
           THEN Set(all_pass(state), "bid") /\ UNCHANGED confi_made
           ELSE /\ Set(add_bid(state, cheapest_nt(current_bid)), "confi_mincheck")
                /\ confi_made' =
                      Append(confi_made,
                             Made("signoff", next_to_bid, cheapest_nt(current_bid)))
    /\ UNCHANGED <<walk, dealer, director, opener, openers_first_rebid, denied_four_cards,
                   showed_four_cards, showed_five_cards, showed_three_cards>>

\* lines 416-426: pass out a no-trump bid, else bid the cheapest NT
confi_signoff ==
    /\ pc = "confi_signoff"
    /\ LET current_bid == highest_bid(bids)
       IN  IF endswithN(current_bid)
           THEN Set(all_pass(state), "bid") /\ UNCHANGED confi_made
           ELSE /\ Set(add_bid(add_bid(state, cheapest_nt(current_bid)), "P"),
                       "confi_mincheck")
                /\ confi_made' =
                      Append(confi_made,
                             Made("signoff", next_to_bid, cheapest_nt(current_bid)))
    /\ UNCHANGED <<walk, dealer, director, opener, openers_first_rebid, denied_four_cards,
                   showed_four_cards, showed_five_cards, showed_three_cards>>

-----------------------------------------------------------------------------
(* A bidding run: b.bid(north, south) on a loaded system, after lines      *)
(* 492-494.                                                                *)

Init ==
    /\ \E n \in 1..Len(Hands), s \in 1..Len(Hands) : hands = HandsOf(Hands[n], Hands[s])
    /\ \E t \in 1..Len(Systems) : full_tree = Systems[t]
    /\ bids = <<>>
    /\ dealer = "N"
    /\ next_to_bid = Index(DIRECTIONS, "N") - 1
    /\ exc = NoExc
    /\ next_bids = full_tree
    /\ selected = 0
    /\ pc = "bid"
    /\ opener = 0
    /\ openers_first_rebid = TRUE
    /\ denied_four_cards = NoFlags
    /\ showed_four_cards = NoFlags
    /\ showed_five_cards = NoFlags
    /\ showed_three_cards = NoFlags
    /\ confi_made = <<>>
    /\ walk_from = None
    /\ walk_bid = None
    /\ walk_value = None

Next ==
    \/ bid_exhausted
    \/ bid_select
    \/ bid_no_match
    \/ confi_control
    \/ confi_sufficiency
    \/ confi_mincheck
    \/ confi_longsuit
    \/ confi_fit
    \/ confi_show4
    \/ confi_show5
    \/ confi_show3
    \/ confi_signoff

Spec == Init /\ [][Next]_vars

\* bid is one sequential computation: it keeps running until it returns or raises
FairSpec == Spec /\ WF_vars(Next)

-----------------------------------------------------------------------------
(* The Auctioneer on its own: Auctioneer(dealer), then any sequence of     *)
(* add_bid and all_pass calls.                                             *)

CallBids == {"P", "1C", "2N", "6N"}

InitAuctioneer ==
    /\ dealer \in {DIRECTIONS[i] : i \in 1..Len(DIRECTIONS)}
    /\ bids = <<>>
    /\ next_to_bid = Index(DIRECTIONS, dealer) - 1
    /\ exc = NoExc
    /\ pc = "auctioneer"
    /\ hands = HandsOf(Hands[1], Hands[2])
    /\ full_tree = empty_system
    /\ next_bids = full_tree
    /\ selected = 0
    /\ opener = 0
    /\ openers_first_rebid = TRUE
    /\ denied_four_cards = NoFlags
    /\ showed_four_cards = NoFlags
    /\ showed_five_cards = NoFlags
    /\ showed_three_cards = NoFlags
    /\ confi_made = <<>>
    /\ walk_from = None
    /\ walk_bid = None
    /\ walk_value = None

call_add_bid ==
    /\ pc = "auctioneer"
    /\ Len(bids) < MaxBids \/ completed(bids)
    /\ \E b \in CallBids :
          LET st == add_bid(state, b)
          IN  bids' = st.bids /\ next_to_bid' = st.next_to_bid /\ exc' = st.exc
    /\ UNCHANGED <<walk, dealer, pc, director, confi>>

call_all_pass ==
    /\ pc = "auctioneer"
    /\ LET st == all_pass(state)
       IN  bids' = st.bids /\ next_to_bid' = st.next_to_bid /\ exc' = st.exc
    /\ UNCHANGED <<walk, dealer, pc, director, confi>>

NextAuctioneer == call_add_bid \/ call_all_pass

SpecAuctioneer == InitAuctioneer /\ [][NextAuctioneer]_vars

-----------------------------------------------------------------------------
(* next_bid on its own: a caller starts from a bid and moves its local bid *)
(* up with bid = next_bid(bid), as the scans of CONFIHandOff.bid do.       *)

\* the bids a caller may start from: every level-and-strain name of the
\* game, whether BIDS holds it or not
StartBids ==
    {l \o s : l \in {"1", "2", "3", "4", "5", "6", "7"}, s \in {"C", "D", "H", "S", "N"}}

InitNextBid ==
    /\ walk_from \in StartBids
    /\ walk_bid = walk_from
    /\ walk_value = None
    /\ pc = "next_bid"
    /\ dealer = "N"
    /\ bids = <<>>
    /\ next_to_bid = Index(DIRECTIONS, dealer) - 1
    /\ exc = NoExc
    /\ hands = HandsOf(Hands[1], Hands[2])
    /\ full_tree = empty_system
    /\ next_bids = full_tree
    /\ selected = 0
    /\ opener = 0
    /\ openers_first_rebid = TRUE
    /\ denied_four_cards = NoFlags
    /\ showed_four_cards = NoFlags
    /\ showed_five_cards = NoFlags
    /\ showed_three_cards = NoFlags
    /\ confi_made = <<>>

\* next_bid(bid): the value returned, or the exception raised
call_next_bid ==
    /\ pc = "next_bid"
    /\ walk_value = None
    /\ walk_value' = next_bid(walk_bid)
    /\ exc' = IF next_bid(walk_bid) \in {"ValueError", "IndexError"}
              THEN next_bid(walk_bid) ELSE NoExc
    /\ UNCHANGED <<walk_from, walk_bid, bids, next_to_bid, dealer, pc, director, confi>>

\* bid = <the value returned>: the caller goes on from the new bid
assign_bid ==
    /\ pc = "next_bid"
    /\ walk_value # None
    /\ exc = NoExc
    /\ walk_bid' = walk_value
    /\ walk_value' = None
    /\ UNCHANGED <<walk_from, auction, pc, director, confi>>

NextNextBid == call_next_bid \/ assign_bid

SpecNextBid == InitNextBid /\ [][NextNextBid]_vars

-----------------------------------------------------------------------------
(* Properties                                                              *)

IsReal(b) == b # "P"

\* the history seen from outside: three trailing Pass after a real bid, or
\* four Pass and nothing else
PassedOut(b) ==
    \/ b = <<"P", "P", "P", "P">>
    \/ /\ Len(b) >= 4
       /\ \A i \in (Len(b) - 2)..Len(b) : b[i] = "P"
       /\ IsReal(b[Len(b) - 3])

\* the whole guard conjunction of a node, for a hand and an auction state
GuardHolds(node, hand, st) ==
    LET c == find(node, "criteria")
    IN  /\ truth(c)
        /\ \A i \in 1..Len(c.children) :
              /\ check_one(c.children[i], hand, st).exc = NoExc
              /\ check_one(c.children[i], hand, st).value

\* C1: bid terminates for every pair of hands and every decision tree, and
\* the sequence it returns is a completed auction: it ends in exactly three
\* Pass after a real bid, or it is exactly four Pass.
C1_ReturnsCompletedAuction == pc = "done" => PassedOut(bids)

\* C2: when the cursor has candidate nodes and no guard holds for the hand
\* of the seat to bid, the auction is passed out before bid returns.
C2_NoMatchForcesPassOut ==
    [][(/\ pc = "bid"
        /\ truth(next_bids)
        /\ Len(findall(next_bids, "bid")) > 0
        /\ \A i \in 1..Len(findall(next_bids, "bid")) :
              ~GuardHolds(findall(next_bids, "bid")[i], hands[next_to_bid], state)
        /\ pc' = "done")
       => completed(bids')]_vars

\* C3: add_bid on a completed auction raises and leaves bids and
\* next_to_bid as they were; so no proper prefix of a reachable history is
\* a completed auction.
C3_AddBidAfterCompletedFails ==
    /\ [][(call_add_bid /\ completed(bids))
          => (/\ exc' = "Auction is already over!"
              /\ bids' = bids
              /\ next_to_bid' = next_to_bid)]_vars
    /\ [](\A k \in 0..(Len(bids) - 1) : ~completed(SubSeq(bids, 1, k)))

C3_Witness ==
    /\ pc = "auctioneer"
    /\ completed(bids)
    /\ has_opened(bids)
    /\ exc = "Auction is already over!"

\* C4: in every state of a bidding run the real bids of the history never
\* decrease under the order of BIDS.
C4_RealBidsNeverDecrease ==
    \A i, j \in 1..Len(bids) :
        (i < j /\ IsReal(bids[i]) /\ IsReal(bids[j]))
            => Index(BIDS, bids[i]) <= Index(BIDS, bids[j])

\* C5: next_to_bid is the dealer's seat advanced by len(bids) around
\* N, E, S, W, after any sequence of add_bid and all_pass calls, failed
\* ones included.
C5_NextToBidFollowsLength ==
    next_to_bid = ((Index(DIRECTIONS, dealer) - 1) + Len(bids)) % 4

C5_Witness ==
    /\ pc = "auctioneer"
    /\ dealer = "S"
    /\ Len(bids) > 4
    /\ exc # NoExc

\* C6: with North the dealer, every bid made on East's or West's turn is
\* Pass, and every real bid is followed at once by a Pass.
C6_OnlyNorthSouthBid ==
    \A i \in 1..Len(bids) :
        /\ (i % 2 = 0) => bids[i] = "P"
        /\ IsReal(bids[i]) => (i % 2 = 1 /\ i < Len(bids) /\ bids[i + 1] = "P")

C6_Witness ==
    /\ pc = "done"
    /\ selected > 0
    /\ Len(confi_made) >= 4
    /\ \E i \in 1..Len(bids) : IsReal(bids[i]) /\ (i - 1) % 4 = 2

\* C7: a Director step commits the bid of the first node, in declared
\* order, whose whole guard holds for the hand of the seat to bid, and only
\* that bid (with the forced Pass); what is committed stays in the history.
C7_FirstMatchIsCommitted ==
    [][/\ SubSeq(bids', 1, Len(bids)) = bids
       /\ (pc = "bid" /\ truth(next_bids) /\ bids' # bids)
          => LET cands == findall(next_bids, "bid")
                 hand == hands[next_to_bid]
             IN  /\ selected' \in 1..Len(cands)
                 /\ GuardHolds(cands[selected'], hand, state)
                 /\ \A j \in 1..(selected' - 1) : ~GuardHolds(cands[j], hand, state)
                 /\ bids' = bids \o <<cands[selected'].attrib["value"], "P">>]_vars

C7_Witness ==
    /\ full_tree = overlapping
    /\ bids = <<"2N", "P">>
    /\ selected = 2
    /\ GuardHolds(findall(full_tree, "bid")[3], hands[0],
                  [bids |-> <<>>, next_to_bid |-> 0, exc |-> NoExc])

\* C8: all_pass appends only Pass values, keeps highest_bid, leaves the
\* auction completed, and appends nothing to a completed auction.
C8_AllPassFrame ==
    [][call_all_pass
       => /\ exc' = NoExc
          /\ completed(bids')
          /\ \E k \in 0..4 :
                /\ Len(bids') = Len(bids) + k
                /\ SubSeq(bids', 1, Len(bids)) = bids
                /\ \A i \in (Len(bids) + 1)..Len(bids') : bids'[i] = "P"
          /\ highest_bid(bids') = highest_bid(bids)
          /\ completed(bids) => bids' = bids]_vars

C8_Witness ==
    /\ pc = "auctioneer"
    /\ bids = <<"P", "2N", "P", "P", "P">>
    /\ exc = NoExc

ReferenceDeal ==
    /\ full_tree = kokish
    /\ hands = HandsOf(Hands[1], Hands[2])

\* C9: under the reference system, North "AQ3 AK3 J2 AQ652" and South
\* "K9742 J2 K865 K3" bid 2N P 3N P 4D P 4S P 5C P 5D P 5S P 6S P P P.
C9_ReferenceAuction ==
    ReferenceDeal
        => /\ pc # "raised"
           /\ pc = "done"
                => bids = <<"2N", "P", "3N", "P", "4D", "P", "4S", "P", "5C", "P",
                            "5D", "P", "5S", "P", "6S", "P", "P", "P">>

C9_Witness == ReferenceDeal /\ pc = "done" /\ Len(confi_made) = 6

\* the number of cards of a rank in a hand
Cards(hand, rank) ==
    Cardinality({<<s, k>> \in (1..4) \X (1..13) :
                    s <= Len(hand) /\ k <= Len(hand[s]) /\ hand[s][k] = rank})

\* the bid space of the game: every level 1..7 with every strain, ordered
\* by level, then by strain C < D < H < S < N
BidSpace ==
    LET levels == <<"1", "2", "3", "4", "5", "6", "7">>
        strains == <<"C", "D", "H", "S", "N">>
    IN  [i \in 1..35 |-> levels[((i - 1) \div 5) + 1] \o strains[((i - 1) % 5) + 1]]

\* C10: when CONFI is invoked, the seat to bid bids the bid that lies
\* max(controls - 6, 0) + 1 steps above the last real bid in the bid order,
\* controls being twice its aces plus its kings, and the next seat passes.
C10_ControlStep ==
    [][pc = "confi_control"
       => LET hand == hands[next_to_bid]
              controls == 2 * Cards(hand, "A") + Cards(hand, "K")
              steps == (IF controls > 6 THEN controls - 6 ELSE 0) + 1
              target == Index(BidSpace, highest_bid(bids)) + steps
          IN  /\ target <= Len(BidSpace)
              /\ bids' = bids \o <<BidSpace[target], "P">>
              /\ next_to_bid' = (next_to_bid + 2) % 4
              /\ pc' = "confi_sufficiency"]_vars

\* controls of a hand, counted from its cards: two for an ace, one for a king
Controls(hand) == 2 * Cards(hand, "A") + Cards(hand, "K")

\* the cheapest no-trump bid at position i of BIDS or above
LeastNT(i) ==
    BIDS[CHOOSE k \in i..Len(BIDS) :
            /\ BIDS[k] \in {"1N", "2N", "3N", "4N", "5N", "6N"}
            /\ \A j \in i..(k - 1) : BIDS[j] \notin {"1N", "2N", "3N", "4N", "5N", "6N"}]

\* the seats of the partnership in a run of CONFI: the opener and the responder
Responder == 2 - opener

\* C11: after the control step, when max(opener's controls, 6) plus the
\* responder's controls is below 10 the responder bids the cheapest no-trump
\* bid at or above the control-step bid and three Pass follow, after which
\* the history never changes; when the sum is 10 or more nothing is bid at
\* that point.
C11_SufficiencySignOff ==
    /\ [][pc = "confi_sufficiency"
          => LET oc == Controls(hands[opener])
                 rc == Controls(hands[next_to_bid])
                 step_bid == bids[Len(bids) - 1]
             IN  IF (IF oc > 6 THEN oc ELSE 6) + rc < 10
                 THEN /\ bids' = bids \o <<LeastNT(Index(BIDS, step_bid)), "P", "P", "P">>
                      /\ pc' = "bid"
                 ELSE /\ bids' = bids
                      /\ pc' = "confi_mincheck"]_vars
    /\ [][(confi_made # <<>> /\ confi_made[Len(confi_made)].step = "signoff10")
          => bids' = bids]_vars

\* the control step was 3N itself and the responder signed off in 3N
C11_Witness ==
    /\ pc = "done"
    /\ bids = <<"3S", "P", "3N", "P", "3N", "P", "P", "P">>
    /\ confi_made[Len(confi_made)].step = "signoff10"

\* the bids the seat has made in this run of CONFI, the control step included
MadeBy(seat) == {k \in 1..Len(confi_made) : confi_made[k].seat = seat}

\* C12: at the top of a loop iteration, on the opener's first turn after the
\* control step and only then, an opener with fewer than 6 controls passes a
\* no-trump bid out, or else bids the cheapest no-trump above the highest
\* bid, followed by a Pass; the responder then passes the auction out when
\* its controls + 6 < 11 and goes on with the same iteration otherwise.  On
\* every other turn the check bids nothing.
C12_MinimumCheck ==
    [][pc = "confi_mincheck"
       => LET first_turn_back ==
                  next_to_bid = opener /\ Cardinality(MadeBy(opener)) = 1
              current == highest_bid(bids)
          IN  IF first_turn_back /\ Controls(hands[opener]) < 6
              THEN IF current \in {"1N", "2N", "3N", "4N", "5N", "6N"}
                   THEN /\ bids' = bids \o <<"P", "P">>
                        /\ pc' = "bid"
                   ELSE LET nt == LeastNT(Index(BIDS, current) + 1)
                        IN  IF Controls(hands[Responder]) + 6 < 11
                            THEN /\ bids' = bids \o <<nt, "P", "P", "P">>
                                 /\ pc' = "bid"
                            ELSE /\ bids' = bids \o <<nt, "P">>
                                 /\ next_to_bid' = Responder
                                 /\ pc' = "confi_longsuit"
              ELSE /\ bids' = bids
                   /\ pc' = "confi_longsuit"]_vars

\* the opener corrected with 4N, the responder went on, and the opener is at
\* the top of the loop again
C12_Witness ==
    /\ pc = "confi_mincheck"
    /\ next_to_bid = opener
    /\ Controls(hands[opener]) < 6
    /\ \E k \in 1..Len(confi_made) : confi_made[k].step = "mincheck"
    /\ Cardinality(MadeBy(opener)) = 2

\* the signalling tables of a run of CONFI
Flags == <<denied_four_cards, showed_four_cards, showed_five_cards, showed_three_cards>>

\* the suits (positions in SUITS) a hand holds with at least n cards
SuitsOfLength(hand, n) == {i \in 1..4 : Len(hand[i]) >= n}

\* C13: at the long-suit check, the opener with 6 or more cards in some suit
\* bids 6 of such a suit and three Pass follow, with no signalling table
\* touched; the responder, and an opener without such a suit, bid nothing
\* there and go on to the fit checks.
C13_LongSuitJump ==
    [][pc = "confi_longsuit"
       => LET long == SuitsOfLength(hands[next_to_bid], 6)
          IN  IF next_to_bid = opener /\ long # {}
              THEN /\ \E i \in long : bids' = bids \o <<"6" \o SUITS[i], "P", "P", "P">>
                   /\ pc' = "bid"
                   /\ Flags' = Flags
              ELSE /\ bids' = bids
                   /\ pc' = "confi_fit"]_vars

\* the opener has jumped in its 6-card spade suit
C13_Witness ==
    /\ pc = "done"
    /\ confi_made # <<>>
    /\ confi_made[Len(confi_made)] = Made("longsuit", opener, "6S")
    /\ Len(hands[opener][1]) >= 6

\* the suits in which the seat to bid has a fit of n cards with what its
\* partner has flagged in a signalling table
FitSuits(table, n) ==
    {i \in SuitsOfLength(hands[next_to_bid], n) : table[2 - next_to_bid][i]}

\* C14: at the fit checks of a turn, which come before the suit
\* introductions, a 4-4 fit is taken first, then a 5-3 fit, then a 3-5 fit:
\* the seat bids 6 of a suit of the first kind of fit it has, three Pass
\* follow and no signalling table is touched; without any fit nothing is bid
\* and the 4-card introduction comes next.
C14_FitChecksInOrder ==
    [][pc = "confi_fit"
       => LET f44 == FitSuits(showed_four_cards, 4)
              f53 == FitSuits(showed_five_cards, 3)
              f35 == FitSuits(showed_three_cards, 5)
              matched == IF f44 # {} THEN f44 ELSE IF f53 # {} THEN f53 ELSE f35
          IN  IF matched # {}
              THEN /\ \E i \in matched :
                         bids' = bids \o <<"6" \o SUITS[i], "P", "P", "P">>
                   /\ pc' = "bid"
                   /\ Flags' = Flags
              ELSE /\ bids' = bids
                   /\ pc' = "confi_show4"]_vars

\* a seat has jumped on a 4-4 fit in a suit its partner had shown
C14_Witness ==
    /\ pc = "done"
    /\ confi_made # <<>>
    /\ confi_made[Len(confi_made)].step = "fit44"
    /\ \E k \in 1..(Len(confi_made) - 1) :
          /\ confi_made[k].step = "show4"
          /\ confi_made[k].seat = 2 - confi_made[Len(confi_made)].seat
          /\ suit_index(confi_made[k].bid) = suit_index(confi_made[Len(confi_made)].bid)

\* the 3-5 fit jumps of the run: positions in confi_made
Jumps35 == {k \in 1..Len(confi_made) : confi_made[k].step = "fit35"}

\* seat had shown the suit of bid b as a 4-card suit before position k
ShownFourBefore(seat, b, k) ==
    \E j \in 1..(k - 1) :
        /\ confi_made[j].step = "show4"
        /\ confi_made[j].seat = seat
        /\ suit_index(confi_made[j].bid) = suit_index(b)

\* C15 as stated: a 3-5 fit jump is made only in a suit that the partner of
\* the jumping seat had already shown as a 4-card suit.
C15_JumpSuitShownByPartner ==
    \A k \in Jumps35 :
        ShownFourBefore(2 - confi_made[k].seat, confi_made[k].bid, k)

\* C15, amended: a 3-5 fit jump is made only in a suit that the jumping seat
\* itself had already shown as a 4-card suit, and that its partner then
\* showed as a 3-card suit.
C15_JumpSuitShownByJumper ==
    \A k \in Jumps35 :
        /\ ShownFourBefore(confi_made[k].seat, confi_made[k].bid, k)
        /\ \E j \in 1..(k - 1) :
              /\ confi_made[j].step = "show3"
              /\ confi_made[j].seat = 2 - confi_made[k].seat
              /\ suit_index(confi_made[j].bid) = suit_index(confi_made[k].bid)
              /\ ShownFourBefore(confi_made[k].seat, confi_made[k].bid, j)

\* a 3-5 fit jump has been made and the auction is over
C15_Witness ==
    /\ pc = "done"
    /\ Jumps35 # {}
    /\ Len(hands[confi_made[Len(confi_made)].seat]
                [suit_index(confi_made[Len(confi_made)].bid)]) >= 5

\* positions in BIDS of the suit bids
SuitBids == {p \in 1..Len(BIDS) : BIDS[p] \notin {"1N", "2N", "3N", "4N", "5N", "6N"}}

\* the suit (position in SUITS) of the suit bid at position p
SuitAt(p) ==
    CHOOSE i \in 1..4 : \E l \in {"1", "2", "3", "4", "5", "6"} : BIDS[p] = l \o SUITS[i]

\* what a scan from the bid cur looks at: the four suit bids next above cur,
\* as far as they lie below the 6 level
Scanned(cur) ==
    {p \in SuitBids :
        /\ p > Index(BIDS, cur)
        /\ Cardinality({q \in SuitBids : Index(BIDS, cur) < q /\ q <= p}) <= 4
        /\ p <= Index(BIDS, "5S")}

\* C16: the 4-card step introduces only a suit bid among the four next above
\* the highest bid and below the 6 level, in a suit the seat holds with 4+
\* cards, that its partner has not denied and that it has not shown as a
\* 4-card suit before; every suit scanned on the way that it holds with
\* fewer than 4 cards is marked as denied, and nothing else is marked.
C16_FourCardIntroduction ==
    [][(pc = "confi_show4" /\ pc' # "raised")
       => LET me == next_to_bid
              hand == hands[me]
              scanned == Scanned(highest_bid(bids))
              upto == IF bids' = bids THEN Len(BIDS) ELSE Index(BIDS, bids'[Len(bids) + 1])
          IN  /\ bids' # bids
                 => LET p == Index(BIDS, bids'[Len(bids) + 1])
                    IN  /\ bids' = bids \o <<BIDS[p], "P">>
                        /\ p \in scanned
                        /\ Len(hand[SuitAt(p)]) >= 4
                        /\ ~denied_four_cards[2 - me][SuitAt(p)]
                        /\ ~showed_four_cards[me][SuitAt(p)]
                        /\ showed_four_cards'[me][SuitAt(p)]
              /\ bids' = bids
                 => \A p \in scanned :
                       \/ Len(hand[SuitAt(p)]) < 4
                       \/ denied_four_cards[2 - me][SuitAt(p)]
                       \/ showed_four_cards[me][SuitAt(p)]
              /\ \A i \in 1..4 :
                    denied_four_cards'[me][i] =
                        (\/ denied_four_cards[me][i]
                         \/ \E p \in scanned :
                               p < upto /\ SuitAt(p) = i /\ Len(hand[i]) < 4)
              /\ denied_four_cards'[2 - me] = denied_four_cards[2 - me]]_vars

\* a seat has marked a short suit as denied and introduced the next suit it
\* holds with four cards
C16_Witness ==
    /\ confi_made # <<>>
    /\ confi_made[Len(confi_made)].step = "show4"
    /\ LET m == confi_made[Len(confi_made)]
       IN  /\ Len(hands[m.seat][SuitAt(Index(BIDS, m.bid))]) >= 4
           /\ \E p \in SuitBids :
                 /\ p < Index(BIDS, m.bid)
                 /\ p > Index(BIDS, bids[Len(bids) - 3])
                 /\ Len(hands[m.seat][SuitAt(p)]) < 4
                 /\ denied_four_cards[m.seat][SuitAt(p)]

\* the positions of the caller inside the while loop of lines 225-426, in
\* the order of the statements of one iteration
LoopSteps == <<"confi_mincheck", "confi_longsuit", "confi_fit", "confi_show4",
               "confi_show5", "confi_show3", "confi_signoff">>

InLoop(p) == \E k \in 1..Len(LoopSteps) : LoopSteps[k] = p

\* how far the loop has come: the position of the highest bid in BIDS, then
\* the position inside the iteration; at most Len(BIDS) * 8 + 7
Progress(b, p) == Index(BIDS, highest_bid(b)) * 8 + Index(LoopSteps, p)

\* C17: a loop iteration that goes on to the next iteration has appended
\* real bids that are all strictly higher than the highest bid it started
\* from, and inside an iteration the caller only moves forward; so the
\* position of the highest bid in BIDS, followed by the position inside the
\* iteration, grows with every step of the loop and the loop ends after a
\* bounded number of iterations.
C17_LoopProgress ==
    [][(InLoop(pc) /\ InLoop(pc'))
       => /\ SubSeq(bids', 1, Len(bids)) = bids
          /\ \A i \in (Len(bids) + 1)..Len(bids') :
                IsReal(bids'[i])
                    => Index(BIDS, bids'[i]) > Index(BIDS, highest_bid(bids))
          /\ pc' = "confi_mincheck"
                => \E i \in (Len(bids) + 1)..Len(bids') : IsReal(bids'[i])
          /\ pc' # "confi_mincheck"
                => Index(LoopSteps, pc') > Index(LoopSteps, pc)
          /\ Progress(bids', pc') > Progress(bids, pc)
          /\ Progress(bids', pc') <= Len(BIDS) * 8 + 7]_vars

\* the loop is at the top of its sixth iteration, after the control step and
\* five bids made in the loop
C17_Witness ==
    /\ pc = "confi_mincheck"
    /\ Len(confi_made) >= 6
    /\ \A k \in 1..(Len(confi_made) - 1) :
          Index(BIDS, confi_made[k].bid) < Index(BIDS, confi_made[k + 1].bid)

\* the suit-introduction bids of the run: positions in confi_made
Introductions == {k \in 1..Len(confi_made) : confi_made[k].step \in {"show4", "show5", "show3"}}

\* C18 as stated: no seat makes a suit-introduction bid (4-card, 5-card or
\* 3-card show) in the same suit more than once.
C18_NoSuitIntroducedTwice ==
    \A j, k \in Introductions :
        (/\ j # k
         /\ confi_made[j].seat = confi_made[k].seat)
            => SuitAt(Index(BIDS, confi_made[j].bid)) # SuitAt(Index(BIDS, confi_made[k].bid))

\* C18, amended: no seat makes the same kind of suit-introduction bid
\* (4-card show, 5-card show, 3-card show) in the same suit more than once,
\* and a suit a seat introduces twice is one it first showed as a 4-card
\* suit and then as a 5-card suit.
C18_NoSuitIntroducedTwiceTheSameWay ==
    \A j, k \in Introductions :
        (/\ j < k
         /\ confi_made[j].seat = confi_made[k].seat
         /\ SuitAt(Index(BIDS, confi_made[j].bid)) = SuitAt(Index(BIDS, confi_made[k].bid)))
            => /\ confi_made[j].step = "show4"
               /\ confi_made[k].step = "show5"

\* a seat has shown a suit as a 4-card suit and later as a 5-card suit
C18_Witness ==
    \E j, k \in Introductions :
        /\ j < k
        /\ confi_made[j].seat = confi_made[k].seat
        /\ confi_made[j].step = "show4"
        /\ confi_made[k].step = "show5"
        /\ SuitAt(Index(BIDS, confi_made[j].bid)) = SuitAt(Index(BIDS, confi_made[k].bid))

\* the caller is inside CONFIHandOff.bid
InConfi(p) == p \in {"confi_control", "confi_sufficiency"} \/ InLoop(p)

\* the last real bid of a history
LastReal(b) == b[CHOOSE i \in 1..Len(b) : IsReal(b[i]) /\ \A j \in (i + 1)..Len(b) : ~IsReal(b[j])]

SixLevel == {"6C", "6D", "6H", "6S", "6N"}

\* C19 as stated: when the CONFI hand-off returns, the auction is completed,
\* its final contract is a 6-level suit bid or a no-trump bid, and every
\* 6-level bid the convention has made is the last real bid of the auction.
C19_ReturnsSlamOrNoTrump ==
    [][(InConfi(pc) /\ pc' = "bid")
       => /\ PassedOut(bids')
          /\ LastReal(bids') \in {"6C", "6D", "6H", "6S"}
                                    \cup {"1N", "2N", "3N", "4N", "5N", "6N"}
          /\ \A k \in 1..Len(confi_made') :
                confi_made'[k].bid \in SixLevel
                    => /\ k = Len(confi_made')
                       /\ LastReal(bids') = confi_made'[k].bid]_vars

\* C19, amended: when the CONFI hand-off returns, the auction is completed
\* and its final contract is a 6-level suit bid or a no-trump bid; a 6-level
\* bid made by a long-suit jump or a fit jump is the last real bid of the
\* auction.
C19_ReturnsJumpLast ==
    [][(InConfi(pc) /\ pc' = "bid")
       => /\ PassedOut(bids')
          /\ final_contract(bids') \in {"6C", "6D", "6H", "6S"}
                                           \cup {"1N", "2N", "3N", "4N", "5N", "6N"}
          /\ \A k \in 1..Len(confi_made') :
                confi_made'[k].step \in {"longsuit", "fit44", "fit53", "fit35"}
                    => /\ confi_made'[k].bid \in {"6C", "6D", "6H", "6S"}
                       /\ k = Len(confi_made')
                       /\ LastReal(bids') = confi_made'[k].bid]_vars

\* the hand-off has returned after a fit jump to 6H that followed a
\* no-trump bid of the loop
C19_Witness ==
    /\ pc = "done"
    /\ Len(confi_made) >= 3
    /\ confi_made[Len(confi_made)].step \in {"fit44", "fit53", "fit35"}
    /\ confi_made[Len(confi_made)].bid = "6H"
    /\ \E k \in 1..(Len(confi_made) - 1) : confi_made[k].step \in {"mincheck", "signoff"}
    /\ final_contract(bids) = "6H"

\* C20: the bid space is every level 1..7 with every strain, ordered by
\* level then strain; next_bid gives the immediate successor of every real
\* bid below 7N and fails for 7N only.
C20_NextBidIsSuccessor ==
    [][call_next_bid
       => LET p == Index(BidSpace, walk_bid)
          IN  IF p < Len(BidSpace)
              THEN walk_value' = BidSpace[p + 1] /\ exc' = NoExc
              ELSE exc' # NoExc]_vars

\* a hand-off named by the selected node has run and left a completed auction
HandOffReturned == confi_made # <<>> /\ ~InConfi(pc) /\ PassedOut(bids)

\* C21: once the hand-off named by the selected node has completed the
\* auction, bid attempts no further bid and returns that auction without an
\* error, whether or not the node has a response subtree.
C21_HandOffEndsTheWalk ==
    /\ [](HandOffReturned => (exc = NoExc /\ pc # "raised"))
    /\ [][(HandOffReturned /\ pc = "bid") => (pc' = "done" /\ bids' = bids)]_vars

\* the fit jumps of the run: positions in confi_made
FitJumps == {k \in 1..Len(confi_made) : confi_made[k].step \in {"fit44", "fit53", "fit35"}}

\* the cards the partnership holds in the suit at position i of SUITS
Combined(i) == Len(hands[0][i]) + Len(hands[2][i])

\* C22: in every reachable state each signalling flag is true of the hand of
\* its seat (shown as four: 4+ cards, shown as five: 5+, shown as three: 3+,
\* denied: fewer than 4), and every fit jump is to 6 of a suit in which the
\* two hands together hold at least 8 cards.
C22_FlagsAreTruthful ==
    /\ \A seat \in {0, 2}, i \in 1..4 :
          /\ showed_four_cards[seat][i] => Len(hands[seat][i]) >= 4
          /\ showed_five_cards[seat][i] => Len(hands[seat][i]) >= 5
          /\ showed_three_cards[seat][i] => Len(hands[seat][i]) >= 3
          /\ denied_four_cards[seat][i] => Len(hands[seat][i]) < 4
    /\ \A k \in FitJumps :
          /\ confi_made[k].bid \in {"6C", "6D", "6H", "6S"}
          /\ Combined(SuitAt(Index(BIDS, confi_made[k].bid))) >= 8

\* a 5-3 fit jump in a suit of exactly 8 cards, with flags of all four
\* tables set on the way
C22_Witness ==
    /\ pc = "done"
    /\ FitJumps # {}
    /\ confi_made[Len(confi_made)].step = "fit53"
    /\ Combined(SuitAt(Index(BIDS, confi_made[Len(confi_made)].bid))) = 8
    /\ \E seat \in {0, 2}, i \in 1..4 : denied_four_cards[seat][i]
    /\ \E seat \in {0, 2}, i \in 1..4 : showed_four_cards[seat][i]
    /\ \E seat \in {0, 2}, i \in 1..4 : showed_five_cards[seat][i]

====
